---- MODULE Spec2Model ----
(***************************************************************************)
(* Model of the build-time utilities of sjg.io:                            *)
(*   - the tag validator (validate-tags: validateTag, validateTags, main), *)
(*   - the footnote annotator (rehype-footnote-class),                     *)
(*   - parseFrontmatter of the validator and of the analyzer, on the text  *)
(*     of a post,                                                          *)
(*   - the tag analyzer (analyze-tags: analyzeTags, main),                 *)
(*   - both tools run again over the same posts listed in another order.   *)
(* JavaScript strings are sequences of one-character strings, so that      *)
(* toLowerCase, includes, replace, startsWith, endsWith and trim are       *)
(* computed the way the code computes them.                                *)
(***************************************************************************)
EXTENDS Integers, Sequences, FiniteSets, TLC

VARIABLES
    configFile,     \* canonical-tags.json on disk: "missing", "malformed" or a configuration
    canonicalTags,  \* module-level cache `let canonicalTags` (Null or a configuration)
    reads,          \* number of readFileSync(canonicalTagsPath) calls made so far
    tag,            \* validateTag: the argument of the current call
    out,            \* validateTag: the value returned by the last call (NoCall before it)
    renames,        \* the caller: how often it has replaced the tag by the suggestion
    dir,            \* readdirSync(postsDir): the directory entries, in listing order
    pc,             \* position of the validator run
    postFiles,      \* validateTags: the filtered listing
    fi,             \* validateTags: index of the file being scanned
    ti,             \* validateTags: index of the tag being validated in that file
    issues,         \* validateTags: issues pushed so far
    allTags,        \* validateTags: Set of the tags seen
    result,         \* main: the ValidationResult returned by validateTags
    exitCode,       \* process exit status (NoExit while running)
    tree,           \* footnote annotator: the hast tree
    tree0,          \* footnote annotator: the tree as it was handed in
    afterFirst,     \* footnote annotator: the tree after the first pass
    passes,         \* footnote annotator: number of passes run
    classArrays,    \* footnote annotator: the className arrays handed in, each with its
                    \* contents now
    doc,            \* a post as its author wrote it: the parts of its text
    content,        \* readFileSync(filePath): the text of that post
    vParsed,        \* validateTags: what parseFrontmatter returned for it, and its postSlug
    aParsed,        \* analyzeTags: what parseFrontmatter returned for it, and its postSlug
    unreadable,     \* what cannot be read: NothingUnreadable, DirUnreadable or the index of a file
    aPc,            \* position of the analyzer run
    aFiles,         \* analyzeTags: the filtered listing
    aIdx,           \* analyzeTags: index of the file being read
    tagMap,         \* analyzeTags: the Map from tag to posts, in insertion order
    report,         \* analyzeTags: what the report is computed from and what it prints
    aLog,           \* analyzer: what was written to stderr
    aExit,          \* analyzer: process exit status (-1 while running)
    earlier         \* what both tools returned over the listing as it was before

vars == <<configFile, canonicalTags, reads, tag, out, renames, dir, pc, postFiles, fi, ti,
          issues, allTags, result, exitCode, tree, tree0, afterFirst, passes,
          classArrays,
          doc, content, vParsed, aParsed,
          unreadable, aPc, aFiles, aIdx, tagMap, report, aLog, aExit, earlier>>

tagVars  == <<tag, out, renames>>
runVars  == <<dir, pc, postFiles, fi, ti, issues, allTags, result, exitCode>>
footVars == <<tree, tree0, afterFirst, passes, classArrays>>
parseVars == <<doc, content, vParsed, aParsed>>
anaVars  == <<unreadable, aPc, aFiles, aIdx, tagMap, report, aLog, aExit>>
orderVars == <<earlier>>

----------------------------------------------------------------------------
(* Bounds of the model *)

\* longest tag enumerated over Alphabet
MaxLen == 3

\* most entries in the posts directory
MaxPosts == 2

\* most tags in the frontmatter of an enumerated post
MaxTags == 2

\* most element nodes in a tree handed to the footnote annotator
MaxNodes == 3

\* most replacements of a tag by its suggestion before the caller gives up
MaxRenames == 6

\* most entries in the posts directory the analyzer is run over
MaxDocs == 3


----------------------------------------------------------------------------
(* JavaScript values *)

\* `undefined`: a one-element sequence no string of characters equals
Undefined == <<"undefined">>

\* the constructor function Object, found on Object.prototype
ObjectFunction == <<"function Object">>

\* the function Object.prototype.toString
ToStringFunction == <<"function toString">>

\* characters tags are enumerated over
Alphabet == {"A", "a", " ", "\t", "_", "-"}

\* String.prototype.toLowerCase on one character
LowerChar(c) ==
    CASE c = "A" -> "a"
      [] c = "B" -> "b"
      [] c = "S" -> "s"
      [] OTHER   -> c

\* characters matched by \s and removed by trim()
WhiteSpace == {" ", "\t"}

toLowerCase(s) == [i \in DOMAIN s |-> LowerChar(s[i])]

\* s.includes(sub)
includes(s, sub) ==
    \E i \in 0..(Len(s) - Len(sub)) : SubSeq(s, i + 1, i + Len(sub)) = sub

\* Array.prototype.includes
InSeq(x, sq) == \E i \in DOMAIN sq : sq[i] = x

startsWith(s, sub) == Len(s) >= Len(sub) /\ SubSeq(s, 1, Len(sub)) = sub

endsWith(s, sub) == Len(s) >= Len(sub) /\ SubSeq(s, Len(s) - Len(sub) + 1, Len(s)) = sub

RECURSIVE DropWhile(_, _)
\* s without its longest prefix of characters of cls
DropWhile(s, cls) ==
    IF s # <<>> /\ Head(s) \in cls THEN DropWhile(Tail(s), cls) ELSE s

RECURSIVE ReplaceRuns(_, _, _)
\* s.replace(/[cls]+/g, rep): every maximal run of characters of cls becomes rep
ReplaceRuns(s, cls, rep) ==
    IF s = <<>> THEN <<>>
    ELSE IF Head(s) \in cls
         THEN rep \o ReplaceRuns(DropWhile(Tail(s), cls), cls, rep)
         ELSE <<Head(s)>> \o ReplaceRuns(Tail(s), cls, rep)

\* ReplaceEach without the g flag: only the first c is replaced
ReplaceEach_FirstOnly(s, c, rep) ==
    [i \in DOMAIN s |-> IF s[i] = c /\ \A j \in 1..(i - 1) : s[j] # c THEN rep ELSE s[i]]

\* s.replace(/[c]/g, rep): every single character c becomes rep
ReplaceEach(s, c, rep) == [i \in DOMAIN s |-> IF s[i] = c THEN rep ELSE s[i]]

Reverse(s) == [i \in DOMAIN s |-> s[Len(s) + 1 - i]]

\* StripEnds with the alternative for the trailing run lost from the pattern
StripEnds_LeadingOnly(s, cls) == DropWhile(s, cls)

\* s.replace(/^[cls]+|[cls]+$/g, ''): the leading run and the trailing run are removed
StripEnds(s, cls) == Reverse(DropWhile(Reverse(DropWhile(s, cls)), cls))

\* s.trim()
trim(s) == StripEnds(s, WhiteSpace)

----------------------------------------------------------------------------
(* The canonical-tag configuration *)

\* Array.prototype keys aside, the names every parsed JSON object inherits
Constructor == <<"c", "o", "n", "s", "t", "r", "u", "c", "t", "o", "r">>

ToStringName == <<"t", "o", "S", "t", "r", "i", "n", "g">>

\* obj[key] for a name found on Object.prototype and not on the object itself
ObjectPrototype(key) ==
    CASE key = Constructor  -> ObjectFunction
      [] key = ToStringName -> ToStringFunction
      [] OTHER              -> Undefined

\* canonicalTags.consolidationMap[key]: own property first, then the prototype chain
GetProperty(map, key) ==
    IF key \in DOMAIN map THEN map[key] ELSE ObjectPrototype(key)

\* JavaScript truthiness of a property value: undefined and '' are falsy
Truthy(v) == v # Undefined /\ v # <<>>

\* the cache before any successful load, and what loadCanonicalTags returns on failure
NullConfig == [state |-> "null", canonicalTags |-> <<>>, consolidationMap |-> <<>>]

\* a configuration file that is not there, or whose JSON does not parse
BadFile(st) == [state |-> st, canonicalTags |-> <<>>, consolidationMap |-> <<>>]

\* a configuration file with the shape of interface CanonicalTags
GoodFile(ct, map) == [state |-> "ok", canonicalTags |-> ct, consolidationMap |-> map]

\* loadCanonicalTags answering a failed read or parse with an empty configuration object
loadCanonicalTags_EmptyOnFailure(file) ==
    IF file.state = "ok" THEN file
    ELSE [state |-> "ok", canonicalTags |-> <<>>, consolidationMap |-> <<>>]

\* loadCanonicalTags(): the parsed file, or null when reading or parsing throws
loadCanonicalTags(file) == IF file.state = "ok" THEN file ELSE NullConfig

\* the value of the module-level cache after `if (!canonicalTags) canonicalTags = load()`
CacheAfterCall(cache, file) ==
    IF cache.state = "null" THEN loadCanonicalTags(file) ELSE cache

\* the number of file reads after the same statement
ReadsAfterCall(cache, n) == IF cache.state = "null" THEN n + 1 ELSE n

----------------------------------------------------------------------------
(* validateTag *)

Verdict(v, i, s) == [valid |-> v, issue |-> i, suggestion |-> s]

\* `out` before validateTag has returned
NoCall == Verdict(FALSE, "no call", Undefined)

\* validateTag(t), given the cache as it is after the load attempt
validateTag(cache, t) ==
    IF cache.state # "null" /\ Truthy(GetProperty(cache.consolidationMap, t))
    THEN Verdict(FALSE, "Tag should be consolidated", GetProperty(cache.consolidationMap, t))
    ELSE IF t # toLowerCase(t)
    THEN Verdict(FALSE, "Contains uppercase letters", toLowerCase(t))
    ELSE IF includes(t, <<" ">>)
    THEN Verdict(FALSE, "Contains spaces (should use hyphens)", ReplaceRuns(t, WhiteSpace, <<"-">>))
    ELSE IF includes(t, <<"_">>)
    THEN Verdict(FALSE, "Contains underscores (should use hyphens)", ReplaceEach(t, "_", "-"))
    ELSE IF includes(t, <<"-", "-">>)
    THEN Verdict(FALSE, "Contains multiple consecutive hyphens", ReplaceRuns(t, {"-"}, <<"-">>))
    ELSE IF startsWith(t, <<"-">>) \/ endsWith(t, <<"-">>)
    THEN Verdict(FALSE, "Contains leading or trailing hyphens", StripEnds(t, {"-"}))
    ELSE IF trim(t) = <<>>
    THEN Verdict(FALSE, "Empty tag", Undefined)
    ELSE Verdict(TRUE, "undefined", Undefined)

----------------------------------------------------------------------------
(* Single calls of validateTag: any tag, any configuration file *)

Strings(n) == UNION {[1..k -> Alphabet] : k \in 0..n}

\* the tags validateTag is called with
TagUniverse == Strings(MaxLen) \cup {Constructor, ToStringName}

\* a key of the consolidation map besides the tag under test
OtherKey == <<"a", "a">>

\* replacement tags a consolidation map names
MapValues == {<<"a">>, <<>>, <<"a", "-", "a">>}

\* the configuration files tried with tag t
ConfigFilesFor(t) ==
    {BadFile("missing"), BadFile("malformed")}
    \cup {GoodFile(<<>>, m) : m \in UNION {[K -> MapValues] : K \in SUBSET {t, OtherKey}}}

\* a post without a slug line
NoSlugLine == [present |-> FALSE, quote |-> "none", value |-> <<>>]

\* `doc` when no post is being read
NoDoc == [opening |-> <<>>, hasTagsLine |-> FALSE, entries |-> <<>>, slug |-> NoSlugLine,
          closing |-> <<>>, body |-> <<>>]

\* `vParsed` and `aParsed` before the post is read
NotParsed ==
    [returned |-> FALSE,
     fm |-> [hasTags |-> FALSE, tags |-> <<>>, slug |-> <<>>],
     postSlug |-> <<>>]

\* `report` before analyzeTags has printed it
NoReport == [printed |-> FALSE]

NothingUnreadable == -1

DirUnreadable == 0

\* `earlier` while the listing is the first one the tools are run over
NoEarlier == [taken |-> FALSE]

\* the state of the variables a specification does not use
IdleParse == doc = NoDoc /\ content = <<>> /\ vParsed = NotParsed /\ aParsed = NotParsed
IdleAna  == /\ unreadable = NothingUnreadable /\ aPc = "idle" /\ aFiles = <<>> /\ aIdx = 0
            /\ tagMap = <<>> /\ report = NoReport /\ aLog = <<>> /\ aExit = -1
IdleOrder == earlier = NoEarlier
IdleTag  == tag = <<>> /\ out = NoCall /\ renames = 0
IdleRun  == /\ dir = <<>> /\ pc = "idle" /\ postFiles = <<>> /\ fi = 0 /\ ti = 0
            /\ issues = <<>> /\ allTags = {} /\ exitCode = -1
            /\ result = [returned |-> FALSE]
IdleFoot == /\ tree = <<>> /\ tree0 = <<>> /\ afterFirst = <<>> /\ passes = 0
            /\ classArrays = <<>>

InitTag ==
    /\ tag \in TagUniverse
    /\ configFile \in ConfigFilesFor(tag)
    /\ canonicalTags = NullConfig
    /\ reads = 0
    /\ out = NoCall
    /\ renames = 0
    /\ IdleRun
    /\ IdleFoot
    /\ IdleParse
    /\ IdleAna
    /\ IdleOrder

\* one call validateTag(tag) of the exported function
CallValidateTag ==
    /\ pc = "idle"
    /\ out = NoCall
    /\ canonicalTags' = CacheAfterCall(canonicalTags, configFile)
    /\ reads' = ReadsAfterCall(canonicalTags, reads)
    /\ out' = validateTag(canonicalTags', tag)
    /\ UNCHANGED <<configFile, tag, renames, runVars, footVars, parseVars, anaVars,
                   orderVars>>

\* the caller renames the tag as suggested and has it validated again
ApplySuggestion ==
    /\ pc = "idle"
    /\ out # NoCall
    /\ ~out.valid
    /\ out.suggestion \notin {Undefined, ObjectFunction, ToStringFunction}
    /\ renames < MaxRenames
    /\ tag' = out.suggestion
    /\ out' = NoCall
    /\ renames' = renames + 1
    /\ UNCHANGED <<configFile, canonicalTags, reads, runVars, footVars, parseVars, anaVars,
                   orderVars>>

NextTag == CallValidateTag \/ ApplySuggestion

SpecTag == InitTag /\ [][NextTag]_vars

----------------------------------------------------------------------------
(* The posts directory *)

\* what parseFrontmatter returns for a file: tags is undefined without a frontmatter block
Frontmatter(has, tags, slug) == [hasTags |-> has, tags |-> tags, slug |-> slug]

\* a directory entry: its name (stem and extension) and what its text parses to
Entry(stem, ext, fm) == [stem |-> stem, ext |-> ext, fm |-> fm]

AB    == <<"A", " ", "B">>
c_d   == <<"c", "_", "d">>
e__f  == <<"e", "-", "-", "f">>
_g_   == <<"-", "g", "-">>

\* tags: ["A B", "c_d", "e--f", "-g-"]
RoundTripTags == <<AB, c_d, e__f, _g_>>

\* the tags of the enumerated posts
SmallPool == {<<"a">>, <<"A">>}

TagLists(n) == UNION {[1..k -> SmallPool] : k \in 0..n}

\* the slug parseFrontmatter returns when it finds none
Unknown == <<"u", "n", "k", "n", "o", "w", "n">>

\* the texts a posts directory is filled with, each with the extension of its file
EntryPool ==
    {[ext |-> ".mdx", fm |-> Frontmatter(TRUE, ts, Unknown)] : ts \in TagLists(MaxTags)}
    \cup {[ext |-> ".mdx", fm |-> Frontmatter(TRUE, RoundTripTags, Unknown)],
          [ext |-> ".mdx", fm |-> Frontmatter(TRUE, << <<"A">> >>, <<"s">>)],
          [ext |-> ".mdx", fm |-> Frontmatter(FALSE, <<>>, Unknown)],
          [ext |-> ".md", fm |-> Frontmatter(TRUE, << <<"A">> >>, Unknown)],
          [ext |-> ".mdx", fm |-> Frontmatter(TRUE, <<Constructor>>, Unknown)]}

\* the file names of a listing: p1, p2, ... in listing order
StemAt(i) == <<"p", <<"1", "2", "3", "4", "5", "6", "7", "8", "9">>[i]>>

\* the listings readdirSync can return: distinct names, any texts
Directories ==
    {[i \in 1..k |-> Entry(StemAt(i), c[i].ext, c[i].fm)] :
        k \in 0..MaxPosts, c \in [1..MaxPosts -> EntryPool]}

\* the configuration files the validator is run with
RunConfigFiles ==
    {BadFile("missing"), BadFile("malformed"),
     GoodFile(<<>>, <<>>),
     GoodFile(<< <<"b">> >>, [k \in {<<"a">>} |-> <<"b">>]),
     GoodFile(<< <<"a">> >>, [k \in {<<"A">>, c_d} |-> <<"a">>])}

\* f.endsWith('.mdx')
IsPost(e) == e.ext = ".mdx"

RECURSIVE Filter(_)
\* readdirSync(postsDir).filter(f => f.endsWith('.mdx'))
Filter(d) ==
    IF d = <<>> THEN <<>>
    ELSE IF IsPost(Head(d)) THEN <<Head(d)>> \o Filter(Tail(d)) ELSE Filter(Tail(d))

\* slug === 'unknown' ? file.replace('.mdx', '') : slug
PostSlug(e) == IF e.fm.slug = Unknown THEN e.stem ELSE e.fm.slug

\* tags?.length || 0
TagCount(e) == IF e.fm.hasTags THEN Len(e.fm.tags) ELSE 0

RECURSIVE SumTags(_)
\* postFiles.reduce((sum, file) => sum + (tags?.length || 0), 0)
SumTags(files) ==
    IF files = <<>> THEN 0 ELSE TagCount(Head(files)) + SumTags(Tail(files))

TagIssue(post, t, v) == [post |-> post, tag |-> t, issue |-> v.issue, suggestion |-> v.suggestion]

\* ValidationResult with totalTags taken from the Set of tags seen
ValidationResult_TotalFromSet(iss, files, seen) ==
    [returned |-> TRUE,
     valid |-> Len(iss) = 0,
     issues |-> iss,
     stats |-> [totalPosts |-> Len(files), totalTags |-> Cardinality(seen),
                uniqueTags |-> Cardinality(seen)]]

\* the ValidationResult validateTags returns
ValidationResult(iss, files, seen) ==
    [returned |-> TRUE,
     valid |-> Len(iss) = 0,
     issues |-> iss,
     stats |-> [totalPosts |-> Len(files), totalTags |-> SumTags(files),
                uniqueTags |-> Cardinality(seen)]]

\* ExitStatus of a command that reports and never fails the build
ExitStatus_AlwaysZero(res) == 0

\* the status main() ends the process with
ExitStatus(res) == IF Len(res.issues) > 0 THEN 1 ELSE 0

----------------------------------------------------------------------------
(* The validator run: main() -> validateTags() -> process.exit *)

Init ==
    /\ configFile \in RunConfigFiles
    /\ canonicalTags = NullConfig
    /\ reads = 0
    /\ IdleTag
    /\ dir \in Directories
    /\ pc = "main"
    /\ postFiles = <<>>
    /\ fi = 0
    /\ ti = 0
    /\ issues = <<>>
    /\ allTags = {}
    /\ result = [returned |-> FALSE]
    /\ exitCode = -1
    /\ IdleFoot
    /\ IdleParse
    /\ IdleAna
    /\ IdleOrder

\* validateTags, up to the loop: the listing is read and filtered
StartValidateTags ==
    /\ pc = "main"
    /\ postFiles' = Filter(dir)
    /\ issues' = <<>>
    /\ allTags' = {}
    /\ fi' = 1
    /\ ti' = 1
    /\ pc' = "scan"
    /\ UNCHANGED <<configFile, canonicalTags, reads, tagVars, dir, result, exitCode, footVars, parseVars, anaVars,
                   orderVars>>

\* one iteration of `for (const tag of tags)`
ScanTag ==
    /\ pc = "scan"
    /\ fi <= Len(postFiles)
    /\ TagCount(postFiles[fi]) > 0
    /\ ti <= TagCount(postFiles[fi])
    /\ LET t == postFiles[fi].fm.tags[ti]
           cache == CacheAfterCall(canonicalTags, configFile)
           v == validateTag(cache, t)
       IN /\ allTags' = allTags \cup {t}
          /\ canonicalTags' = cache
          /\ reads' = ReadsAfterCall(canonicalTags, reads)
          /\ issues' = IF v.valid THEN issues
                       ELSE Append(issues, TagIssue(PostSlug(postFiles[fi]), t, v))
          /\ ti' = ti + 1
    /\ UNCHANGED <<configFile, tagVars, dir, pc, postFiles, fi, result, exitCode, footVars, parseVars, anaVars,
                   orderVars>>

\* the file has no (more) tags: on to the next one
NextFile ==
    /\ pc = "scan"
    /\ fi <= Len(postFiles)
    /\ ti > TagCount(postFiles[fi]) \/ TagCount(postFiles[fi]) = 0
    /\ fi' = fi + 1
    /\ ti' = 1
    /\ UNCHANGED <<configFile, canonicalTags, reads, tagVars, dir, pc, postFiles,
                   issues, allTags, result, exitCode, footVars, parseVars, anaVars, orderVars>>

\* validateTags, after the loop: the files are read again for totalTags and the result returned
ReturnResult ==
    /\ pc = "scan"
    /\ fi > Len(postFiles)
    /\ result' = ValidationResult(issues, postFiles, allTags)
    /\ pc' = "report"
    /\ UNCHANGED <<configFile, canonicalTags, reads, tagVars, dir, postFiles, fi, ti,
                   issues, allTags, exitCode, footVars, parseVars, anaVars, orderVars>>

\* main, after validateTags: the configuration is loaded for the report, then process.exit
MainExit ==
    /\ pc = "report"
    /\ reads' = reads + 1
    /\ exitCode' = ExitStatus(result)
    /\ pc' = "exited"
    /\ UNCHANGED <<configFile, canonicalTags, tagVars, dir, postFiles, fi, ti,
                   issues, allTags, result, footVars, parseVars, anaVars, orderVars>>

Next == StartValidateTags \/ ScanTag \/ NextFile \/ ReturnResult \/ MainExit

Spec == Init /\ [][Next]_vars

----------------------------------------------------------------------------
(* Regular expressions of parseFrontmatter, matched the way the engine matches them *)

\* characters matched by \s in a text with line breaks
RegexSpace == WhiteSpace \cup {"\n"}

Dashes == <<"-", "-", "-">>

TagsKey == <<"t", "a", "g", "s", ":">>

SlugKey == <<"s", "l", "u", "g", ":">>

\* characters that end the value of a slug line: [^"'\n]
QuoteOrNewline == {"\"", "'", "\n"}

Min(S) == CHOOSE x \in S : \A y \in S : x <= y

Max(S) == CHOOSE x \in S : \A y \in S : x >= y

\* sub occurs in s at index i
At(s, i, sub) ==
    /\ i >= 1
    /\ i + Len(sub) - 1 <= Len(s)
    /\ SubSeq(s, i, i + Len(sub) - 1) = sub

RECURSIVE RunEnd(_, _, _)
\* the index after the run of characters of cls that starts at i
RunEnd(s, i, cls) ==
    IF i <= Len(s) /\ s[i] \in cls THEN RunEnd(s, i + 1, cls) ELSE i

\* the first index from i on where sub occurs (0: nowhere)
FirstAt(s, i, sub) ==
    LET P == {r \in i..Len(s) : At(s, r, sub)} IN IF P = {} THEN 0 ELSE Min(P)

\* the first index from i on that holds a character of cls (0: none)
FirstIn(s, i, cls) ==
    LET P == {r \in i..Len(s) : s[r] \in cls} IN IF P = {} THEN 0 ELSE Min(P)

\* the positions ^ matches at under the m flag
LineStarts(s) == {1} \cup {j + 1 : j \in {k \in DOMAIN s : s[k] = "\n"}}

\* the result of String.prototype.match: null, or the text of group 1
NoMatch == [matched |-> FALSE, group |-> <<>>]

Match(g) == [matched |-> TRUE, group |-> g]

\* frontmatterMatch that lets blank lines come before the opening delimiter
frontmatterMatch_LeadingBlank(text) ==
    LET c == DropWhile(text, RegexSpace)
    IN IF ~At(c, 1, Dashes) THEN NoMatch
       ELSE LET E == RunEnd(c, 4, RegexSpace)
                Q == {q \in 4..(E - 1) :
                         c[q] = "\n" /\ FirstAt(c, q + 1, <<"\n">> \o Dashes) # 0}
            IN IF Q = {} THEN NoMatch
               ELSE Match(SubSeq(c, Max(Q) + 1,
                                 FirstAt(c, Max(Q) + 1, <<"\n">> \o Dashes) - 1))

\* content.match(/^---\s*\n([\s\S]*?)\n---/): \s* is greedy and gives back down to the
\* last line break after which a '\n---' is still found; the group is lazy
frontmatterMatch(text) ==
    IF ~At(text, 1, Dashes) THEN NoMatch
    ELSE LET E == RunEnd(text, 4, RegexSpace)
             Q == {q \in 4..(E - 1) :
                      text[q] = "\n" /\ FirstAt(text, q + 1, <<"\n">> \o Dashes) # 0}
         IN IF Q = {} THEN NoMatch
            ELSE Match(SubSeq(text, Max(Q) + 1,
                              FirstAt(text, Max(Q) + 1, <<"\n">> \o Dashes) - 1))

\* /^tags:\s*\[(.*?)\]/m tried at the line start p
TagsAt(fm, p) ==
    IF ~At(fm, p, TagsKey) THEN NoMatch
    ELSE LET b == RunEnd(fm, p + 5, RegexSpace)
         IN IF ~At(fm, b, <<"[">>) THEN NoMatch
            ELSE LET e == FirstIn(fm, b + 1, {"]", "\n"})
                 IN IF e = 0 \/ fm[e] # "]" THEN NoMatch
                    ELSE Match(SubSeq(fm, b + 1, e - 1))

\* frontmatter.match(/^tags:\s*\[(.*?)\]/m): the first line start that matches
tagsMatch(fm) ==
    LET P == {p \in LineStarts(fm) : TagsAt(fm, p).matched}
    IN IF P = {} THEN NoMatch ELSE TagsAt(fm, Min(P))

RECURSIVE matchAllQuoted(_, _)
\* Array.from(tagsString.matchAll(/"([^"]+)"/g), m => m[1]), scanning from index i
matchAllQuoted(s, i) ==
    IF i > Len(s) THEN <<>>
    ELSE LET c == IF s[i] = "\"" THEN FirstIn(s, i + 1, {"\""}) ELSE 0
         IN IF c > i + 1
            THEN <<SubSeq(s, i + 1, c - 1)>> \o matchAllQuoted(s, c + 1)
            ELSE matchAllQuoted(s, i + 1)

\* where group 1 of the slug pattern starts when \s* ends before index a
SlugStart(fm, a) ==
    IF a <= Len(fm) /\ fm[a] \in {"\"", "'"} THEN a + 1 ELSE a

\* /^slug:\s*["']?([^"'\n]+)["']?/m tried at the line start p
SlugAt(fm, p) ==
    IF ~At(fm, p, SlugKey) THEN NoMatch
    ELSE LET E == RunEnd(fm, p + 5, RegexSpace)
             A == {a \in (p + 5)..E :
                      /\ SlugStart(fm, a) <= Len(fm)
                      /\ fm[SlugStart(fm, a)] \notin QuoteOrNewline}
         IN IF A = {} THEN NoMatch
            ELSE LET st == SlugStart(fm, Max(A))
                     e  == FirstIn(fm, st, QuoteOrNewline)
                 IN Match(SubSeq(fm, st, IF e = 0 THEN Len(fm) ELSE e - 1))

\* frontmatter.match(/^slug:\s*["']?([^"'\n]+)["']?/m)
slugMatch(fm) ==
    LET P == {p \in LineStarts(fm) : SlugAt(fm, p).matched}
    IN IF P = {} THEN NoMatch ELSE SlugAt(fm, Min(P))

\* group 1 of the heading pattern may start at s: a character of the line, a line
\* break somewhere after it
HeadingStartsAt(c, s) ==
    s <= Len(c) /\ c[s] # "\n" /\ FirstIn(c, s + 1, {"\n"}) # 0

\* \s*\n#+\s*(.+?)\n tried at index i: #+ and \s* are greedy, the group is lazy
HeadingRest(c, i) ==
    LET E == RunEnd(c, i, RegexSpace)
    IN IF ~(E - 1 >= i /\ c[E - 1] = "\n" /\ At(c, E, <<"#">>)) THEN NoMatch
       ELSE LET H == RunEnd(c, E, {"#"})
                A == {a \in (E + 1)..H :
                         \E s \in a..RunEnd(c, a, RegexSpace) : HeadingStartsAt(c, s)}
            IN IF A = {} THEN NoMatch
               ELSE LET s == Max({t \in Max(A)..RunEnd(c, Max(A), RegexSpace) :
                                     HeadingStartsAt(c, t)})
                    IN Match(SubSeq(c, s, FirstIn(c, s + 1, {"\n"}) - 1))

\* the closing delimiters the lazy [\s\S]*? of the heading pattern can stop before,
\* when the pattern is tried at the line start p
HeadingClosers(c, p) ==
    {x \in (p + 3)..Len(c) : At(c, x, Dashes) /\ HeadingRest(c, x + 3).matched}

\* content.match(/^---[\s\S]*?---\s*\n#+\s*(.+?)\n/m)
headingMatch(c) ==
    LET P == {p \in LineStarts(c) : At(c, p, Dashes) /\ HeadingClosers(c, p) # {}}
    IN IF P = {} THEN NoMatch
       ELSE HeadingRest(c, Min(HeadingClosers(c, Min(P))) + 3)

\* parseFrontmatter of validate-tags: the slug falls back on the first heading
parseFrontmatter(text) ==
    LET block == frontmatterMatch(text)
    IN IF ~block.matched THEN Frontmatter(FALSE, <<>>, Unknown)
       ELSE LET tagsFound == tagsMatch(block.group)
                slugLine  == slugMatch(block.group)
                slugFound == IF slugLine.matched THEN slugLine ELSE headingMatch(text)
            IN Frontmatter(TRUE,
                   IF tagsFound.matched THEN matchAllQuoted(tagsFound.group, 1) ELSE <<>>,
                   IF slugFound.matched THEN trim(slugFound.group) ELSE Unknown)

\* parseFrontmatter of analyze-tags: the slug line only
analyzerParseFrontmatter(text) ==
    LET block == frontmatterMatch(text)
    IN IF ~block.matched THEN Frontmatter(FALSE, <<>>, Unknown)
       ELSE LET tagsFound == tagsMatch(block.group)
                slugFound == slugMatch(block.group)
            IN Frontmatter(TRUE,
                   IF tagsFound.matched THEN matchAllQuoted(tagsFound.group, 1) ELSE <<>>,
                   IF slugFound.matched THEN trim(slugFound.group) ELSE Unknown)

----------------------------------------------------------------------------
(* The text of a post, as its author wrote it *)

\* an entry of a tags array: its quoting ("double", "single" or "none") and its text
TagEntry(q, t) == [quote |-> q, text |-> t]

\* a slug line: its quoting and its value
SlugLine(q, v) == [present |-> TRUE, quote |-> q, value |-> v]

\* the entries tags arrays are written with: "a", "A b", "", 'a' and a
WrittenEntries ==
    {TagEntry("double", <<"a">>), TagEntry("double", <<"A", " ", "b">>),
     TagEntry("double", <<>>), TagEntry("single", <<"a">>), TagEntry("none", <<"a">>)}

EntryLists(n) == UNION {[1..k -> WrittenEntries] : k \in 0..n}

\* the slug lines posts are written with: none, slug: s, slug: "s t" and slug: 's'
WrittenSlugs ==
    {NoSlugLine, SlugLine("none", <<"s">>), SlugLine("double", <<"s", " ", "t">>),
     SlugLine("single", <<"s">>)}

\* what a text starts with: the opening delimiter, nothing, or a blank line before it
Openings == {Dashes \o <<"\n">>, <<>>, <<"\n">> \o Dashes \o <<"\n">>}

\* what the frontmatter ends with: nothing, the closing delimiter, or a line of four dashes
Closings == {<<>>, Dashes \o <<"\n">>, <<"-">> \o Dashes \o <<"\n">>}

\* what follows the frontmatter: nothing, a heading, a blank line and a heading, text
Bodies ==
    {<<>>, <<"#", " ", "H", "\n">>, <<"\n", "#", "#", " ", "H", "\n">>, <<"x", "\n">>}

QuoteMark(q) ==
    CASE q = "double" -> <<"\"">>
      [] q = "single" -> <<"'">>
      [] OTHER        -> <<>>

RECURSIVE JoinEntries(_)
\* the entries as written between the brackets, separated by ', '
JoinEntries(es) ==
    IF es = <<>> THEN <<>>
    ELSE QuoteMark(Head(es).quote) \o Head(es).text \o QuoteMark(Head(es).quote)
         \o (IF Len(es) > 1 THEN <<",", " ">> ELSE <<>>) \o JoinEntries(Tail(es))

\* the text of the document d: the opening, a title line, the tags and slug lines as
\* written, the closing and the body
Render(d) ==
    d.opening
    \o <<"t", "i", "t", "l", "e", ":", " ", "T", "\n">>
    \o (IF d.hasTagsLine
        THEN TagsKey \o <<" ", "[">> \o JoinEntries(d.entries) \o <<"]", "\n">>
        ELSE <<>>)
    \o (IF d.slug.present
        THEN SlugKey \o <<" ">> \o QuoteMark(d.slug.quote) \o d.slug.value
             \o QuoteMark(d.slug.quote) \o <<"\n">>
        ELSE <<>>)
    \o d.closing
    \o d.body

\* the file the text is read from: p1.mdx
PostFile == Entry(StemAt(1), ".mdx", Frontmatter(FALSE, <<>>, Unknown))

\* what a script holds after reading a post: the parse result and the post's identifier
Parsed(fm) ==
    [returned |-> TRUE, fm |-> fm, postSlug |-> PostSlug([PostFile EXCEPT !.fm = fm])]

----------------------------------------------------------------------------
(* One post read by both scripts: readFileSync, parseFrontmatter, postSlug *)

InitParse ==
    /\ \E op \in Openings : \E has \in BOOLEAN :
       \E es \in (IF has THEN EntryLists(MaxTags) ELSE {<<>>}) :
       \E sl \in WrittenSlugs : \E cl \in Closings : \E bd \in Bodies :
          doc = [opening |-> op, hasTagsLine |-> has, entries |-> es, slug |-> sl,
                 closing |-> cl, body |-> bd]
    /\ content = Render(doc)
    /\ vParsed = NotParsed
    /\ aParsed = NotParsed
    /\ configFile = BadFile("missing")
    /\ canonicalTags = NullConfig
    /\ reads = 0
    /\ IdleTag
    /\ IdleRun
    /\ IdleFoot
    /\ IdleAna
    /\ IdleOrder

\* validateTags, lines 174-178, for this post
ValidatorReadsPost ==
    /\ content # <<>>
    /\ ~vParsed.returned
    /\ vParsed' = Parsed(parseFrontmatter(content))
    /\ UNCHANGED <<configFile, canonicalTags, reads, tagVars, runVars, footVars,
                   doc, content, aParsed, anaVars, orderVars>>

\* analyzeTags, lines 52-55, for this post
AnalyzerReadsPost ==
    /\ content # <<>>
    /\ ~aParsed.returned
    /\ aParsed' = Parsed(analyzerParseFrontmatter(content))
    /\ UNCHANGED <<configFile, canonicalTags, reads, tagVars, runVars, footVars,
                   doc, content, vParsed, anaVars, orderVars>>

NextParse == ValidatorReadsPost \/ AnalyzerReadsPost

SpecParse == InitParse /\ [][NextParse]_vars

----------------------------------------------------------------------------
(* analyzeTags: the tag map, the usage table and the report *)

\* the tags the consolidation table of lines 116-152 names, and the near miss 'workflows'
Tag ==
    [workflow |-> <<"w", "o", "r", "k", "f", "l", "o", "w">>,
     workflowEngineering |->
         <<"w", "o", "r", "k", "f", "l", "o", "w", "-", "e",
           "n", "g", "i", "n", "e", "e", "r", "i", "n", "g">>,
     operationalAi |-> <<"o", "p", "e", "r", "a", "t", "i", "o", "n", "a", "l", "-", "a", "i">>,
     ai |-> <<"a", "i">>,
     digitalSkills |-> <<"d", "i", "g", "i", "t", "a", "l", "-", "s", "k", "i", "l", "l", "s">>,
     skills |-> <<"s", "k", "i", "l", "l", "s">>,
     computerLiteracy |->
         <<"c", "o", "m", "p", "u", "t", "e", "r",
           "-", "l", "i", "t", "e", "r", "a", "c", "y">>,
     education |-> <<"e", "d", "u", "c", "a", "t", "i", "o", "n">>,
     workflows |-> <<"w", "o", "r", "k", "f", "l", "o", "w", "s">>]

\* if (!tagMap.has(tag)) tagMap.set(tag, []); tagMap.get(tag).push(postSlug)
PushPost(tm, t, slug) ==
    IF \E i \in DOMAIN tm : tm[i].tag = t
    THEN [i \in DOMAIN tm |->
             IF tm[i].tag = t THEN [tm[i] EXCEPT !.posts = Append(@, slug)] ELSE tm[i]]
    ELSE Append(tm, [tag |-> t, posts |-> <<slug>>])

RECURSIVE PushAll(_, _, _)
\* `for (const tag of tags)` of one post
PushAll(tm, tags, slug) ==
    IF tags = <<>> THEN tm ELSE PushAll(PushPost(tm, Head(tags), slug), Tail(tags), slug)

\* ([tag, posts]) => ({ tag, count: posts.length, posts })
TagUsage(e) == [tag |-> e.tag, count |-> Len(e.posts), posts |-> e.posts]

RECURSIVE InsertByCount_BeforeEquals(_, _)
\* InsertByCount placing u in front of the entries of its own count
InsertByCount_BeforeEquals(sorted, u) ==
    IF sorted = <<>> THEN <<u>>
    ELSE IF Head(sorted).count > u.count
         THEN <<Head(sorted)>> \o InsertByCount_BeforeEquals(Tail(sorted), u)
         ELSE <<u>> \o sorted

RECURSIVE InsertByCount(_, _)
\* u placed behind every entry whose count is not smaller
InsertByCount(sorted, u) ==
    IF sorted = <<>> THEN <<u>>
    ELSE IF Head(sorted).count >= u.count
         THEN <<Head(sorted)>> \o InsertByCount(Tail(sorted), u)
         ELSE <<u>> \o sorted

\* SortByCount leaving the entries in the order of the Map
SortByCount_Unsorted(us) == us

RECURSIVE SortByCount(_)
\* .sort((a, b) => b.count - a.count): descending, entries of equal count in their order
SortByCount(us) ==
    IF us = <<>> THEN <<>>
    ELSE InsertByCount(SortByCount(SubSeq(us, 1, Len(us) - 1)), us[Len(us)])

RECURSIVE SumCounts(_)
\* tagUsage.reduce((sum, t) => sum + t.count, 0)
SumCounts(us) == IF us = <<>> THEN 0 ELSE Head(us).count + SumCounts(Tail(us))

\* tagUsage.filter(t => t.count === 1).length
SingleUse(us) == Cardinality({i \in DOMAIN us : us[i].count = 1})

\* tagUsage.filter(t => t.count > 1).length
MultiUse(us) == Cardinality({i \in DOMAIN us : us[i].count > 1})

Suggestion(from, to) == [from |-> from, to |-> to]

\* the consolidations pushed for the tags of the corpus, in the order of the table
Consolidations(tags) ==
    (IF InSeq(Tag.workflow, tags) /\ InSeq(Tag.workflowEngineering, tags)
     THEN <<Suggestion(Tag.workflowEngineering, Tag.workflow)>> ELSE <<>>)
    \o (IF InSeq(Tag.operationalAi, tags) /\ InSeq(Tag.ai, tags)
        THEN <<Suggestion(Tag.operationalAi, Tag.ai)>> ELSE <<>>)
    \o (IF InSeq(Tag.digitalSkills, tags) /\ InSeq(Tag.skills, tags)
        THEN <<Suggestion(Tag.digitalSkills, Tag.skills)>> ELSE <<>>)
    \o (IF /\ InSeq(Tag.computerLiteracy, tags)
           /\ InSeq(Tag.skills, tags) \/ InSeq(Tag.education, tags)
        THEN <<Suggestion(Tag.computerLiteracy, Tag.skills)>> ELSE <<>>)

\* a / b on numbers: NaN for 0 / 0, Infinity for a / 0, else the quotient
Divide(a, b) ==
    [kind |-> IF b # 0 THEN "number" ELSE IF a = 0 THEN "NaN" ELSE "Infinity",
     num |-> a, den |-> b]

\* the literal 0.3
LowReuse == [kind |-> "number", num |-> 3, den |-> 10]

\* LessThan with <= in place of <
LessThan_OrEqual(q, r) ==
    q.kind = "number" /\ q.num * r.den <= r.num * q.den

\* q < r for a quotient of counts q and a literal r: false for NaN and for Infinity.
\* The doubles compare as the fractions do: a quotient equal to r rounds to the double
\* of r, and any other quotient of counts lies many ulps away from it.
LessThan(q, r) ==
    q.kind = "number" /\ q.num * r.den < r.num * q.den

\* the exit status of a run that only reports, raised when reuse is low
AnalyzerExit_FailOnLowReuse(rep) == IF rep.printed /\ rep.advisory THEN 1 ELSE 0

\* the status the process ends with: nothing sets process.exitCode, process.exit(1) of
\* line 186 is in a catch block that the call of an async function never enters
AnalyzerExit(rep) == 0

\* what analyzeTags computes and prints from the tag map (lines 68-173)
Report(tm, files) ==
    LET tagUsage == SortByCount([i \in DOMAIN tm |-> TagUsage(tm[i])])
        multi    == MultiUse(tagUsage)
    IN [printed |-> TRUE,
        totalPosts |-> Len(files),
        tagUsage |-> tagUsage,
        totalTags |-> SumCounts(tagUsage),
        uniqueTags |-> Len(tagUsage),
        singleUseTags |-> SingleUse(tagUsage),
        multiUseTags |-> multi,
        consolidations |-> Consolidations([i \in DOMAIN tagUsage |-> tagUsage[i].tag]),
        averageTags |-> Divide(SumCounts(tagUsage), Len(files)),
        reuseRate |-> Divide(multi, Len(tagUsage)),
        advisory |-> LessThan(Divide(multi, Len(tagUsage)), LowReuse)]

----------------------------------------------------------------------------
(* The analyzer run: main() -> analyzeTags(), and how the process ends *)

\* a post of the corpus: the extension of its file and what its text parses to
Post(tags) == [ext |-> ".mdx", fm |-> Frontmatter(TRUE, tags, Unknown)]

\* posts that use and repeat tags, a post without frontmatter, one without tags, one
\* with a slug, and a file that is no post
UsagePool ==
    LET x == <<"x">>
        y == <<"y">>
    IN {Post(<<x>>), Post(<<y>>), Post(<<x, x>>), Post(<<>>),
        [ext |-> ".mdx", fm |-> Frontmatter(FALSE, <<>>, Unknown)],
        [ext |-> ".mdx", fm |-> Frontmatter(TRUE, <<y>>, <<"s">>)],
        [ext |-> ".md", fm |-> Frontmatter(TRUE, <<x>>, Unknown)]}

\* posts tagged with the tags of the consolidation table, and with a near miss
TablePool ==
    {Post(<<Tag.workflowEngineering>>), Post(<<Tag.workflow>>),
     Post(<<Tag.operationalAi, Tag.ai>>), Post(<<Tag.digitalSkills>>),
     Post(<<Tag.skills>>), Post(<<Tag.computerLiteracy>>),
     Post(<<Tag.education>>), Post(<<Tag.workflows>>)}

\* posts that bring the reuse rate to either side of 0.3: one with ten tags t0 .. t9,
\* posts that repeat three or two of them, and a post with a tag of its own
RatePool ==
    LET t(d) == <<"t", d>>
    IN {Post(<<t("0"), t("1"), t("2"), t("3"), t("4"),
               t("5"), t("6"), t("7"), t("8"), t("9")>>),
        Post(<<t("0"), t("1"), t("2")>>),
        Post(<<t("0"), t("1")>>),
        Post(<<<<"x">>>>)}

\* the listings the analyzer is run over: p1.mdx, p2.mdx, ... filled from one pool
AnalyzerDirectories(pool) ==
    {[i \in 1..k |-> Entry(StemAt(i), c[i].ext, c[i].fm)] :
        k \in 0..MaxDocs, c \in [1..MaxDocs -> pool]}

InitAnalyze ==
    /\ \E pool \in {UsagePool, TablePool, RatePool} : dir \in AnalyzerDirectories(pool)
    /\ unreadable \in {NothingUnreadable, DirUnreadable} \cup DOMAIN dir
    /\ aPc = "main"
    /\ aFiles = <<>>
    /\ aIdx = 0
    /\ tagMap = <<>>
    /\ report = NoReport
    /\ aLog = <<>>
    /\ aExit = -1
    /\ configFile = BadFile("missing")
    /\ canonicalTags = NullConfig
    /\ reads = 0
    /\ IdleTag
    /\ pc = "idle" /\ postFiles = <<>> /\ fi = 0 /\ ti = 0 /\ issues = <<>>
    /\ allTags = {} /\ exitCode = -1 /\ result = [returned |-> FALSE]
    /\ IdleFoot
    /\ IdleParse
    /\ IdleOrder

\* analyzeTags, lines 48-49: the listing is read and filtered, or readdirSync throws
ReadPostsDir ==
    /\ aPc = "main"
    /\ IF unreadable = DirUnreadable
       THEN /\ aPc' = "rejected"
            /\ UNCHANGED <<aFiles, aIdx, tagMap>>
       ELSE /\ aFiles' = Filter(dir)
            /\ tagMap' = <<>>
            /\ aIdx' = 1
            /\ aPc' = "scan"
    /\ UNCHANGED <<configFile, canonicalTags, reads, tagVars, runVars, footVars, parseVars,
                   unreadable, report, aLog, aExit, orderVars>>

\* one iteration of `for (const file of postFiles)`: the post is read, or readFileSync
\* throws, and its tags are pushed into the map
ScanPost ==
    /\ aPc = "scan"
    /\ aIdx <= Len(aFiles)
    /\ IF unreadable >= 1 /\ aFiles[aIdx].stem = StemAt(unreadable)
       THEN /\ aPc' = "rejected"
            /\ UNCHANGED <<aIdx, tagMap>>
       ELSE /\ tagMap' = IF aFiles[aIdx].fm.hasTags /\ Len(aFiles[aIdx].fm.tags) > 0
                         THEN PushAll(tagMap, aFiles[aIdx].fm.tags, PostSlug(aFiles[aIdx]))
                         ELSE tagMap
            /\ aIdx' = aIdx + 1
            /\ UNCHANGED aPc
    /\ UNCHANGED <<configFile, canonicalTags, reads, tagVars, runVars, footVars, parseVars,
                   unreadable, aFiles, report, aLog, aExit, orderVars>>

\* analyzeTags, lines 68-173: the usage table is computed and the report printed
PrintReport ==
    /\ aPc = "scan"
    /\ aIdx > Len(aFiles)
    /\ report' = Report(tagMap, aFiles)
    /\ aPc' = "returned"
    /\ UNCHANGED <<configFile, canonicalTags, reads, tagVars, runVars, footVars, parseVars,
                   unreadable, aFiles, aIdx, tagMap, aLog, aExit, orderVars>>

\* the promise of main() is fulfilled: nothing is left to run and the process ends
MainFulfilled ==
    /\ aPc = "returned"
    /\ aExit' = AnalyzerExit(report)
    /\ aPc' = "exited"
    /\ UNCHANGED <<configFile, canonicalTags, reads, tagVars, runVars, footVars, parseVars,
                   unreadable, aFiles, aIdx, tagMap, report, aLog, orderVars>>

\* the exception rejects the promise of the async main(): .catch(console.error) prints
\* the error as it is, and the process ends
MainRejected ==
    /\ aPc = "rejected"
    /\ aLog' = Append(aLog, [prefix |-> "", error |-> IF unreadable = DirUnreadable
                                                     THEN "readdirSync" ELSE "readFileSync"])
    /\ aExit' = AnalyzerExit(report)
    /\ aPc' = "exited"
    /\ UNCHANGED <<configFile, canonicalTags, reads, tagVars, runVars, footVars, parseVars,
                   unreadable, aFiles, aIdx, tagMap, report, orderVars>>

NextAnalyze == ReadPostsDir \/ ScanPost \/ PrintReport \/ MainFulfilled \/ MainRejected

SpecAnalyze == InitAnalyze /\ [][NextAnalyze]_vars

----------------------------------------------------------------------------
(* Both tools run over one corpus, and again once the directory is listed in another order *)

\* the files of the corpus: posts that share a tag, tags of a consolidation rule, a post
\* with a slug, and a file that is no post
OrderPool ==
    {Post(<< <<"A">>, Tag.workflow >>),
     Post(<<Tag.workflowEngineering>>),
     [ext |-> ".mdx", fm |-> Frontmatter(TRUE, << <<"A">> >>, <<"s">>)],
     [ext |-> ".md", fm |-> Frontmatter(TRUE, << <<"A">> >>, Unknown)]}

\* no configuration file, and one whose consolidation map names a tag of the corpus
OrderConfigFiles ==
    {BadFile("missing"),
     GoodFile(<<Tag.workflow>>, [k \in {Tag.workflowEngineering} |-> Tag.workflow])}

InitOrder ==
    /\ dir \in AnalyzerDirectories(OrderPool)
    /\ configFile \in OrderConfigFiles
    /\ canonicalTags = NullConfig
    /\ reads = 0
    /\ IdleTag
    /\ pc = "main" /\ postFiles = <<>> /\ fi = 0 /\ ti = 0 /\ issues = <<>>
    /\ allTags = {} /\ exitCode = -1 /\ result = [returned |-> FALSE]
    /\ unreadable = NothingUnreadable
    /\ aPc = "main" /\ aFiles = <<>> /\ aIdx = 0 /\ tagMap = <<>>
    /\ report = NoReport /\ aLog = <<>> /\ aExit = -1
    /\ IdleFoot
    /\ IdleParse
    /\ IdleOrder

\* readdirSync(postsDir) returns the same files in another order (the order of a listing
\* is the file system's), and both tools are started again, each in a new process
Relist ==
    /\ pc = "exited"
    /\ aPc = "exited"
    /\ ~earlier.taken
    /\ earlier' = [taken |-> TRUE, dir |-> dir, result |-> result, report |-> report]
    /\ \E f \in Permutations(DOMAIN dir) : dir' = [i \in DOMAIN dir |-> dir[f[i]]]
    /\ canonicalTags' = NullConfig
    /\ reads' = 0
    /\ pc' = "main" /\ postFiles' = <<>> /\ fi' = 0 /\ ti' = 0 /\ issues' = <<>>
    /\ allTags' = {} /\ exitCode' = -1 /\ result' = [returned |-> FALSE]
    /\ aPc' = "main" /\ aFiles' = <<>> /\ aIdx' = 0 /\ tagMap' = <<>>
    /\ report' = NoReport /\ aLog' = <<>> /\ aExit' = -1
    /\ UNCHANGED <<configFile, tagVars, footVars, parseVars, unreadable>>

\* npm run validate-tags, then npm run analyze-tags, then the same over the new listing
NextOrder ==
    \/ StartValidateTags
    \/ ScanTag
    \/ NextFile
    \/ ReturnResult
    \/ MainExit
    \/ pc = "exited" /\ ReadPostsDir
    \/ pc = "exited" /\ ScanPost
    \/ pc = "exited" /\ PrintReport
    \/ pc = "exited" /\ MainFulfilled
    \/ Relist

SpecOrder == InitOrder /\ [][NextOrder]_vars

----------------------------------------------------------------------------
(* The hast tree of the footnote annotator *)

footnotes == <<"f", "o", "o", "t", "n", "o", "t", "e", "s">>

footnoteItem == <<"f", "o", "o", "t", "n", "o", "t", "e", "-", "i", "t", "e", "m">>

\* properties.className: absent, a single string, or an array of strings
NoClass == [kind |-> "absent", str |-> <<>>, arr |-> <<>>]

ClassString(s) == [kind |-> "string", str |-> s, arr |-> <<>>]

ClassArray(a) == [kind |-> "array", str |-> <<>>, arr |-> a]

\* node.properties: absent, or an object with an id and a className
NoProperties == [present |-> FALSE, id |-> "", className |-> NoClass]

Properties(id, cls) == [present |-> TRUE, id |-> id, className |-> cls]

Element(name, props) == [tagName |-> name, properties |-> props]

\* the section elements trees are built from
SectionKinds ==
    {Element("section", Properties("", ClassString(footnotes))),
     Element("section", Properties("", ClassArray(<< <<"x">>, <<"d", "-">> \o footnotes >>))),
     Element("section", Properties("", ClassArray(<< <<"x">> >>)))}

\* the list elements trees are built from
ListKinds == {Element("ol", Properties("", NoClass)), Element("ul", Properties("", NoClass))}

\* the li elements trees are built from, one per shape of the class list
ItemKinds ==
    {Element("li", NoProperties),
     Element("li", Properties("fn", NoClass)),
     Element("li", Properties("fn", ClassString(footnoteItem))),
     Element("li", Properties("fn", ClassString(<<"x">>))),
     Element("li", Properties("fn", ClassArray(<< <<"x">> >>))),
     Element("li", Properties("fn", ClassArray(<<footnoteItem, footnoteItem>>)))}

NodeKinds == SectionKinds \cup ListKinds \cup ItemKinds

RECURSIVE AncestorsOf(_, _)
\* the ancestors of node k under the parent function p, from the root (0) to the parent
AncestorsOf(p, k) == IF k = 0 THEN <<>> ELSE Append(AncestorsOf(p, p[k]), p[k])

\* the parent functions of the ordered trees of n elements, numbered in document order:
\* the parent of a node is the node before it or one of that node's ancestors
ParentFunctions(n) ==
    {p \in [1..n -> 0..(n - 1)] :
        /\ p[1] = 0
        /\ \A k \in 2..n : p[k] = k - 1 \/ InSeq(p[k], AncestorsOf(p, k - 1))}

\* a tree: element k has parent parent[k] (0 is the root node) and content node[k]
Tree(p, nd) == [parent |-> p, node |-> nd]

\* the elements a whole tree is found enclosed in
WrapperKinds ==
    {Element("section", Properties("", ClassArray(<< <<"x">> >>))),
     Element("ol", Properties("", NoClass))}

\* the tree Tree(p, nd) with all of it placed inside the element w
Wrapped(w, p, nd) ==
    [parent |-> [k \in 1..(Len(nd) + 1) |-> IF k = 1 THEN 0 ELSE p[k - 1] + 1],
     node   |-> <<w>> \o nd]

----------------------------------------------------------------------------
(* rehypeFootnoteClass *)

\* ancestor.type === 'element': every node but the root
IsElement(a) == a # 0

\* the class list read off properties.className (lines 14-21 and 39-46)
ClassList(props) ==
    IF ~props.present THEN <<>>
    ELSE IF props.className.kind = "string"
         THEN IF props.className.str = <<>> THEN <<>> ELSE <<props.className.str>>
    ELSE IF props.className.kind = "array" THEN props.className.arr
    ELSE <<>>

\* hasFootnotesClass without the c.includes('footnotes') alternative
hasFootnotesClass_ExactOnly(props) ==
    \E i \in DOMAIN ClassList(props) : ClassList(props)[i] = footnotes

\* sectionClasses.some(c => c === 'footnotes' || c.includes('footnotes'))
hasFootnotesClass(props) ==
    \E i \in DOMAIN ClassList(props) :
        ClassList(props)[i] = footnotes \/ includes(ClassList(props)[i], footnotes)

\* ancestors.some(a => a.type === 'element' && a.tagName === 'ol')
hasOl(t, anc) ==
    \E i \in DOMAIN anc : IsElement(anc[i]) /\ t.node[anc[i]].tagName = "ol"

\* Annotated without the `!liClasses.includes('footnote-item')` test
Annotated_AlwaysAppend(props) ==
    Properties(props.id, ClassArray(Append(ClassList(props), footnoteItem)))

\* lines 35-50: the properties of the li after the class is added
Annotated(props) ==
    IF InSeq(footnoteItem, ClassList(props))
    THEN Properties(props.id, props.className)
    ELSE Properties(props.id, ClassArray(Append(ClassList(props), footnoteItem)))

RECURSIVE WalkAncestors(_, _, _, _)
\* `for (const ancestor of ancestors)` for the li k, from the ancestor rest[1] on
WalkAncestors(t, k, anc, rest) ==
    IF rest = <<>> THEN t
    ELSE IF /\ IsElement(Head(rest))
            /\ t.node[Head(rest)].tagName = "section"
            /\ hasFootnotesClass(t.node[Head(rest)].properties)
            /\ hasOl(t, anc)
         THEN [t EXCEPT !.node[k].properties = Annotated(@)]
         ELSE WalkAncestors(t, k, anc, Tail(rest))

\* the visitor, called on element k with its ancestors
Visitor(t, k) ==
    IF t.node[k].tagName = "li"
    THEN WalkAncestors(t, k, AncestorsOf(t.parent, k), AncestorsOf(t.parent, k))
    ELSE t

RECURSIVE VisitFrom(_, _)
\* visitParents(tree, 'element', visitor): the elements in document order, from k on
VisitFrom(t, k) ==
    IF k > Len(t.node) THEN t ELSE VisitFrom(Visitor(t, k), k + 1)

\* the transformer the plugin returns
Transform(t) == VisitFrom(t, 1)

\* the array objects the className properties of the tree t refer to, each named by its
\* contents
ArraysOf(t) ==
    {t.node[k].properties.className.arr :
        k \in {j \in DOMAIN t.node : t.node[j].properties.className.kind = "array"}}

\* ArraysAfter with liClasses.push('footnote-item') in place of the new array of line 49
ArraysAfter_PushInPlace(ar, t) ==
    [a \in DOMAIN ar |->
        IF \E k \in DOMAIN t.node :
              /\ t.node[k].properties.className.kind = "array"
              /\ t.node[k].properties.className.arr = ar[a]
              /\ Transform(t).node[k] # t.node[k]
        THEN Append(ar[a], footnoteItem)
        ELSE ar[a]]

\* the contents of the array objects ar after a pass over t: line 49 assigns className a
\* new array, [...liClasses, 'footnote-item'], and no statement writes to liClasses
ArraysAfter(ar, t) == ar

----------------------------------------------------------------------------
(* The annotator run over a tree, once and again *)

InitFoot ==
    /\ \E n \in 1..MaxNodes : \E p \in ParentFunctions(n) : \E nd \in [1..n -> NodeKinds] :
          \/ tree = Tree(p, nd)
          \/ \E w \in WrapperKinds : tree = Wrapped(w, p, nd)
    /\ tree0 = tree
    /\ afterFirst = <<>>
    /\ passes = 0
    /\ classArrays = [a \in ArraysOf(tree) |-> a]
    /\ configFile = BadFile("missing")
    /\ canonicalTags = NullConfig
    /\ reads = 0
    /\ IdleTag
    /\ IdleRun
    /\ IdleParse
    /\ IdleAna
    /\ IdleOrder

\* the transformer is applied to the tree: once, and once again
RunPass ==
    /\ passes < 2
    /\ tree' = Transform(tree)
    /\ passes' = passes + 1
    /\ afterFirst' = IF passes = 0 THEN tree' ELSE afterFirst
    /\ classArrays' = ArraysAfter(classArrays, tree)
    /\ UNCHANGED <<configFile, canonicalTags, reads, tagVars, runVars, tree0, parseVars, anaVars,
                   orderVars>>

NextFoot == RunPass

SpecFoot == InitFoot /\ [][NextFoot]_vars

----------------------------------------------------------------------------
(* Claims about validateTag (checked under SpecTag) *)

\* a configuration is loaded from the file and names t as a key of its consolidationMap
IsMapKey(t) == configFile.state = "ok" /\ t \in DOMAIN configFile.consolidationMap

\* the number of the first rule of section 4.2 that t matches (8: none)
FirstRule(t) ==
    CASE IsMapKey(t)                                   -> 1
      [] ~IsMapKey(t) /\ t # toLowerCase(t)            -> 2
      [] OTHER ->
         IF includes(t, <<" ">>) THEN 3
         ELSE IF includes(t, <<"_">>) THEN 4
         ELSE IF includes(t, <<"-", "-">>) THEN 5
         ELSE IF startsWith(t, <<"-">>) \/ endsWith(t, <<"-">>) THEN 6
         ELSE IF trim(t) = <<>> THEN 7
         ELSE 8

\* the issue and the suggestion section 4.2 gives for rule n
RuleVerdict(n, t) ==
    CASE n = 1 -> Verdict(FALSE, "Tag should be consolidated", configFile.consolidationMap[t])
      [] n = 2 -> Verdict(FALSE, "Contains uppercase letters", toLowerCase(t))
      [] n = 3 -> Verdict(FALSE, "Contains spaces (should use hyphens)", ReplaceRuns(t, WhiteSpace, <<"-">>))
      [] n = 4 -> Verdict(FALSE, "Contains underscores (should use hyphens)", ReplaceEach(t, "_", "-"))
      [] n = 5 -> Verdict(FALSE, "Contains multiple consecutive hyphens", ReplaceRuns(t, {"-"}, <<"-">>))
      [] n = 6 -> Verdict(FALSE, "Contains leading or trailing hyphens", StripEnds(t, {"-"}))
      [] n = 7 -> Verdict(FALSE, "Empty tag", Undefined)
      [] OTHER -> Verdict(TRUE, "undefined", Undefined)

\* C1: whatever the tag and the configuration, validateTag returns the issue and the
\* suggestion of the first rule the tag matches, in the order 1 (consolidation-map
\* key), 2 (uppercase), 3 (space), 4 (underscore), 5 ('--'), 6 (leading or trailing
\* hyphen), 7 (empty after trimming, no suggestion).
C1_FirstMatchingRule ==
    out # NoCall => out = RuleVerdict(FirstRule(tag), tag)

\* t passes every structural rule of section 4.2
Clean(t) ==
    /\ t = toLowerCase(t)
    /\ ~includes(t, <<" ">>)
    /\ ~includes(t, <<"_">>)
    /\ ~includes(t, <<"-", "-">>)
    /\ ~startsWith(t, <<"-">>)
    /\ ~endsWith(t, <<"-">>)
    /\ t # <<>>

\* C2: a tag that is lowercase, has no space, underscore, '--', leading or trailing
\* hyphen, is not empty and is not a key of the consolidation map is valid, with no
\* issue and no suggestion, with or without a configuration.
C2_CleanTagIsValid ==
    (out # NoCall /\ Clean(tag) /\ trim(tag) # <<>> /\ ~IsMapKey(tag))
        => out = Verdict(TRUE, "undefined", Undefined)

\* C3: a tag that is a key of the consolidationMap, whatever it maps to, is reported
\* as 'Tag should be consolidated' with the mapped value as suggestion, and never
\* under a structural rule.
C3_MapKeyIsConsolidated ==
    (out # NoCall /\ IsMapKey(tag))
        => out = Verdict(FALSE, "Tag should be consolidated", configFile.consolidationMap[tag])

\* the number of the first structural rule (2-7) of section 4.2 that t matches (8: none)
StructuralRule(t) ==
    IF t # toLowerCase(t) THEN 2
    ELSE IF includes(t, <<" ">>) THEN 3
    ELSE IF includes(t, <<"_">>) THEN 4
    ELSE IF includes(t, <<"-", "-">>) THEN 5
    ELSE IF startsWith(t, <<"-">>) \/ endsWith(t, <<"-">>) THEN 6
    ELSE IF trim(t) = <<>> THEN 7
    ELSE 8

\* C12: with the configuration file missing or its JSON unparseable, the load raises
\* nothing and leaves the configuration absent, the call goes through, and for every
\* tag validateTag returns exactly what the structural rules 2-7 alone give.
C12_AbsentConfig ==
    configFile.state \in {"missing", "malformed"} =>
        /\ out = NoCall => ENABLED CallValidateTag
        /\ out # NoCall =>
              /\ canonicalTags = NullConfig
              /\ out = RuleVerdict(StructuralRule(tag), tag)

\* with unparseable JSON on disk, a name found on Object.prototype was validated: valid
C12_Witness ==
    /\ configFile.state = "malformed"
    /\ tag = Constructor
    /\ out = Verdict(TRUE, "undefined", Undefined)

\* with no file on disk, a suggested tag was validated again and hit a later rule
C12_WitnessMissing ==
    /\ configFile.state = "missing"
    /\ reads = 2
    /\ out # NoCall
    /\ out.issue = "Contains spaces (should use hyphens)"

\* C26: with no configuration loaded, replacing a tag by the suggestion validateTag
\* returns, again and again, comes to an end: the suggested tag matches neither the
\* rule that suggested it nor an earlier one, a tag without a suggestion is valid or
\* reported as 'Empty tag', and no tag is replaced more than 5 times.
C26_SuggestionsTerminate ==
    /\ [](configFile.state \in {"missing", "malformed"} =>
            /\ renames <= 5
            /\ (out # NoCall /\ out.suggestion = Undefined) =>
                  (out.valid \/ out.issue = "Empty tag")
            /\ (out # NoCall /\ renames = 5) => (out.valid \/ out.issue = "Empty tag"))
    /\ [][(configFile.state \in {"missing", "malformed"} /\ renames' = renames + 1) =>
             /\ StructuralRule(tag) \in 2..6
             /\ StructuralRule(tag') > StructuralRule(tag)]_vars

\* with no file on disk a tag was replaced five times, once under each of the rules 2
\* to 6, and is valid
C26_Witness ==
    /\ configFile.state = "missing"
    /\ renames = 5
    /\ out = Verdict(TRUE, "undefined", Undefined)

\* with no file on disk a tag of hyphens was stripped to nothing: 'Empty tag'
C26_WitnessEmpty ==
    /\ configFile.state = "missing"
    /\ renames >= 1
    /\ tag = <<>>
    /\ out # NoCall
    /\ out.issue = "Empty tag"

----------------------------------------------------------------------------
(* Claims about the validator run (checked under Spec) *)

\* C11: the configuration file is read at most once in a run, however many tags are
\* validated and whether the file is there, missing or malformed, and once a load has
\* been attempted the cache holds what that load gave and never changes.
C11_ReadAtMostOnce ==
    /\ [](reads <= 1)
    /\ [][reads >= 1 => canonicalTags' = canonicalTags]_vars

RECURSIVE IssuesOf(_, _)
\* the issues of iss recorded for the post named id, in order
IssuesOf(iss, id) ==
    IF iss = <<>> THEN <<>>
    ELSE IF Head(iss).post = id THEN <<Head(iss)>> \o IssuesOf(Tail(iss), id)
    ELSE IssuesOf(Tail(iss), id)

SuggestionsOf(iss) == [k \in DOMAIN iss |-> iss[k].suggestion]

TagsOf(iss) == [k \in DOMAIN iss |-> iss[k].tag]

\* file i of the listing is the only post of its name, carries the round-trip tags,
\* and the configuration, if any, maps none of them
IsRoundTripPost(i) ==
    /\ i \in DOMAIN postFiles
    /\ postFiles[i].fm.hasTags
    /\ postFiles[i].fm.tags = RoundTripTags
    /\ \A j \in DOMAIN postFiles : PostSlug(postFiles[j]) = PostSlug(postFiles[i]) => j = i
    /\ \A k \in DOMAIN RoundTripTags : ~IsMapKey(RoundTripTags[k])

\* C4: a document with tags ["A B", "c_d", "e--f", "-g-"], none of them in the
\* consolidation map, yields exactly four issues, in that order, with the suggestions
\* "a-b", "c-d", "e-f" and "g" (the statement as the specification makes it).
C4_RoundTripAsStated ==
    result.returned =>
        \A i \in DOMAIN postFiles : IsRoundTripPost(i) =>
            LET mine == IssuesOf(result.issues, PostSlug(postFiles[i]))
            IN /\ TagsOf(mine) = RoundTripTags
               /\ SuggestionsOf(mine) =
                     << <<"a", "-", "b">>, <<"c", "-", "d">>, <<"e", "-", "f">>, <<"g">> >>

\* C4, amended: the same document yields exactly four issues, in that order, with the
\* suggestions "a b" (rule 2 wins over rule 3: the tag is only lowercased), "c-d",
\* "e-f" and "g".
C4_RoundTrip ==
    result.returned =>
        \A i \in DOMAIN postFiles : IsRoundTripPost(i) =>
            LET mine == IssuesOf(result.issues, PostSlug(postFiles[i]))
            IN /\ TagsOf(mine) = RoundTripTags
               /\ SuggestionsOf(mine) =
                     << <<"a", " ", "b">>, <<"c", "-", "d">>, <<"e", "-", "f">>, <<"g">> >>

\* a run has returned its result for a listing with a round-trip post and another post
C4_Witness ==
    /\ result.returned
    /\ Len(postFiles) = 2
    /\ IsRoundTripPost(2)
    /\ Len(result.issues) > 4

\* the posts of the directory, by index
PostIndices == {i \in DOMAIN dir : dir[i].ext = ".mdx"}

\* the tag occurrences of the posts of the directory: (file, position) pairs
Occurrences ==
    UNION {{<<i, k>> : k \in 1..(IF dir[i].fm.hasTags THEN Len(dir[i].fm.tags) ELSE 0)} :
              i \in PostIndices}

\* C9: totalPosts is the number of documents, totalTags the number of tag occurrences
\* over all documents (duplicates counted), uniqueTags the number of distinct tags;
\* over zero documents the result is valid, with no issue and stats (0, 0, 0).
C9_Stats ==
    result.returned =>
        /\ result.stats.totalPosts = Cardinality(PostIndices)
        /\ result.stats.totalTags = Cardinality(Occurrences)
        /\ result.stats.uniqueTags = Cardinality({dir[p[1]].fm.tags[p[2]] : p \in Occurrences})
        /\ PostIndices = {} =>
              /\ result.valid
              /\ result.issues = <<>>
              /\ result.stats = [totalPosts |-> 0, totalTags |-> 0, uniqueTags |-> 0]

\* a result for two posts that share a tag, one of them repeating it
C9_Witness ==
    /\ result.returned
    /\ result.stats.totalPosts = 2
    /\ result.stats.totalTags = 4
    /\ result.stats.uniqueTags = 2

\* a result for a directory that holds a file and no post
C9_WitnessEmpty ==
    /\ result.returned
    /\ dir # <<>>
    /\ result.stats.totalPosts = 0

RECURSIVE FailingTags(_)
\* the tags of ts that match one of the rules 1-7 of section 4.2, in their order
FailingTags(ts) ==
    IF ts = <<>> THEN <<>>
    ELSE (IF FirstRule(Head(ts)) # 8 THEN <<Head(ts)>> ELSE <<>>) \o FailingTags(Tail(ts))

RECURSIVE ExpectedIssues(_)
\* one (document identifier, tag) pair for every failing tag occurrence of the posts of
\* the listing d, document after document and, within a document, tag after tag
ExpectedIssues(d) ==
    IF d = <<>> THEN <<>>
    ELSE (IF Head(d).ext = ".mdx" /\ Head(d).fm.hasTags
          THEN LET id == IF Head(d).fm.slug = Unknown THEN Head(d).stem
                         ELSE Head(d).fm.slug
                   failing == FailingTags(Head(d).fm.tags)
               IN [k \in DOMAIN failing |-> <<id, failing[k]>>]
          ELSE <<>>)
         \o ExpectedIssues(Tail(d))

\* C21: every tag occurrence that fails a rule of section 4.2 produces exactly one
\* issue, carrying the identifier of its document, and every occurrence that passes
\* produces none; the issues are in document scan order and, within a document, in
\* tag order (so a failing tag occurring in N documents yields N issues).
C21_IssuePerOccurrence ==
    result.returned =>
        [k \in DOMAIN result.issues |-> <<result.issues[k].post, result.issues[k].tag>>]
            = ExpectedIssues(dir)

----------------------------------------------------------------------------
(* Claims about the footnote annotator (checked under SpecFoot) *)

\* the entries of a class list given as a string or as a sequence
Entries(cls) ==
    CASE cls.kind = "string" -> <<cls.str>>
      [] cls.kind = "array"  -> cls.arr
      [] OTHER               -> <<>>

Items(t) == {k \in DOMAIN t.node : t.node[k].tagName = "li"}

\* the element ancestors of k
Above(t, k) ==
    LET anc == AncestorsOf(t.parent, k) IN {anc[i] : i \in DOMAIN anc} \ {0}

\* a is a section whose class list has an entry equal to or containing 'footnotes'
IsFootnotesSection(t, a) ==
    /\ t.node[a].tagName = "section"
    /\ \E i \in DOMAIN Entries(t.node[a].properties.className) :
          includes(Entries(t.node[a].properties.className)[i], footnotes)

\* the li k has a footnotes section ancestor and an ol ancestor
Qualifies(t, k) ==
    /\ k \in Items(t)
    /\ LET above == Above(t, k)
       IN /\ \E a \in above : IsFootnotesSection(t, a)
          /\ \E b \in above : t.node[b].tagName = "ol"

\* the li k lies in an ol that lies in a footnotes section
QualifiesStrictly(t, k) ==
    /\ k \in Items(t)
    /\ \E o \in Above(t, k) :
          /\ t.node[o].tagName = "ol"
          /\ \E a \in Above(t, o) : IsFootnotesSection(t, a)

\* how many entries of the class list of element k are 'footnote-item'
ItemCount(t, k) ==
    Cardinality({i \in DOMAIN Entries(t.node[k].properties.className) :
                    Entries(t.node[k].properties.className)[i] = footnoteItem})

C5_WitnessPlainSection ==
    /\ passes >= 1
    /\ \E k \in Items(tree0) : \E a, b \in Above(tree0, k) :
          /\ a < b
          /\ tree0.node[a].tagName = "section" /\ ~IsFootnotesSection(tree0, a)
          /\ tree0.node[b].tagName = "ol"
          /\ ~Qualifies(tree0, k)
          /\ tree.node[k] = tree0.node[k]

\* C6: an li is annotated only when it lies inside an ol that is itself inside the
\* footnotes section; with only a ul between the section and the li it is not
\* annotated, whatever encloses the section.
C6_OlInsideSection ==
    passes >= 1 =>
        \A k \in Items(tree0) :
            tree.node[k] # tree0.node[k] =>
                QualifiesStrictly(tree0, k)

\* C7: running the pass twice leaves the tree as running it once does, and every
\* qualifying li then has exactly one 'footnote-item' entry (the statement as the
\* specification makes it, read for the li in an ol in a footnotes section).
C7_IdempotentAsStated ==
    passes = 2 =>
        /\ tree = afterFirst
        /\ \A k \in Items(tree0) : QualifiesStrictly(tree0, k) => ItemCount(tree, k) = 1

\* C7, amended: running the pass twice leaves the tree as running it once does, and
\* every qualifying li then has exactly one 'footnote-item' entry unless its class list
\* held several before the pass, which it keeps: the pass adds one entry when there is
\* none and removes none.
C7_Idempotent ==
    /\ passes = 2 => tree = afterFirst
    /\ passes >= 1 =>
          \A k \in Items(tree0) : Qualifies(tree0, k) =>
              ItemCount(tree, k) = IF ItemCount(tree0, k) = 0 THEN 1 ELSE ItemCount(tree0, k)

\* two passes over a tree with an li in an ol in a footnotes section: the first gave it
\* the class, the second changed nothing
C7_Witness ==
    /\ passes = 2
    /\ tree = afterFirst
    /\ tree # tree0
    /\ \E k \in Items(tree0) :
          /\ QualifiesStrictly(tree0, k)
          /\ ItemCount(tree0, k) = 0
          /\ ItemCount(tree, k) = 1

\* C8: after the pass the class list of every qualifying li (an li in an ol in a
\* footnotes section) is a sequence of strings, never a single string, whatever its
\* shape before, also when the li already had 'footnote-item' as a single string.
C8_ClassListIsSequence ==
    passes >= 1 =>
        \A k \in Items(tree0) : QualifiesStrictly(tree0, k) =>
            tree.node[k].properties.className.kind = "array"

\* C25: the pass changes nothing but the class list of qualifying li elements (those
\* with a footnotes section ancestor and an ol ancestor): the shape of the tree, every
\* element that is no li and every li that does not qualify are as before; a qualifying
\* li keeps its tagName, its children, its other properties and its class entries in
\* their order, with at most 'footnote-item' added behind them; and no array the
\* tree was handed in with is written to.
C25_OnlyTheClassList ==
    passes >= 1 =>
        /\ tree.parent = tree0.parent
        /\ DOMAIN tree.node = DOMAIN tree0.node
        /\ \A k \in DOMAIN tree0.node :
              \/ tree.node[k] = tree0.node[k]
              \/ /\ Qualifies(tree0, k)
                 /\ tree.node[k].tagName = tree0.node[k].tagName
                 /\ tree.node[k].properties.id = tree0.node[k].properties.id
                 /\ Entries(tree.node[k].properties.className)
                       = Append(Entries(tree0.node[k].properties.className), footnoteItem)
        /\ \A a \in DOMAIN classArrays : classArrays[a] = a

\* a qualifying li handed in with the class array ['x'] has ['x', 'footnote-item'] after
\* the pass, while the array ['x'], which an enclosing section refers to as well, is as
\* it was
C25_Witness ==
    /\ passes >= 1
    /\ \E k \in Items(tree0) : \E s \in Above(tree0, k) :
          /\ Qualifies(tree0, k)
          /\ tree0.node[k].properties.className = ClassArray(<< <<"x">> >>)
          /\ tree.node[k].properties.className = ClassArray(<< <<"x">>, footnoteItem >>)
          /\ tree0.node[s].properties.className = ClassArray(<< <<"x">> >>)
          /\ tree.node[s] = tree0.node[s]
          /\ classArrays[<< <<"x">> >>] = << <<"x">> >>

\* a qualifying li handed in without properties, next to an li that does not qualify
C25_WitnessNoProperties ==
    /\ passes >= 1
    /\ \E k, j \in Items(tree0) :
          /\ Qualifies(tree0, k)
          /\ ~tree0.node[k].properties.present
          /\ tree.node[k].properties.className = ClassArray(<<footnoteItem>>)
          /\ ~Qualifies(tree0, j)
          /\ tree.node[j] = tree0.node[j]

----------------------------------------------------------------------------
(* Claims about parseFrontmatter (checked under SpecParse) *)

\* the text of d starts with a '---' line and a line after its frontmatter begins with '---'
HasBlock(d) == d.opening = Dashes \o <<"\n">> /\ d.closing # <<>>

\* C15: for a text with no frontmatter block (no leading '---' line, or no closing
\* '---' line after it) the extractor returns slug 'unknown' with an empty tag list,
\* tags = [], and raises no error (the statement as the specification makes it).
C15_NoBlockAsStated ==
    \A p \in {vParsed, aParsed} :
        (p.returned /\ ~HasBlock(doc)) =>
            /\ p.fm.slug = Unknown
            /\ p.fm.hasTags
            /\ p.fm.tags = <<>>

\* C15, amended: for a text with no frontmatter block both extractors return, without
\* raising, slug 'unknown' and no tag list at all: tags is undefined, not [].
C15_NoBlock ==
    \A p \in {vParsed, aParsed} :
        (p.returned /\ ~HasBlock(doc)) => p.fm = Frontmatter(FALSE, <<>>, Unknown)

\* both scripts have read a text that opens with '---', has a tags line and a slug line
\* and never closes the block
C15_Witness ==
    /\ vParsed.returned
    /\ aParsed.returned
    /\ doc.opening = Dashes \o <<"\n">>
    /\ doc.closing = <<>>
    /\ doc.hasTagsLine
    /\ doc.entries # <<>>
    /\ doc.slug.present
    /\ vParsed.fm.slug = Unknown

\* both scripts have read a text whose '---' line comes after a blank line
C15_WitnessNoLeading ==
    /\ vParsed.returned
    /\ aParsed.returned
    /\ doc.opening = <<"\n">> \o Dashes \o <<"\n">>
    /\ doc.closing = Dashes \o <<"\n">>
    /\ doc.slug.present
    /\ aParsed.fm.slug = Unknown

RECURSIVE DoubleQuotedTexts(_, _)
\* the texts of the double-quoted entries of es, in order; "" counts when empties does
DoubleQuotedTexts(es, empties) ==
    IF es = <<>> THEN <<>>
    ELSE IF Head(es).quote = "double" /\ (empties \/ Head(es).text # <<>>)
         THEN <<Head(es).text>> \o DoubleQuotedTexts(Tail(es), empties)
         ELSE DoubleQuotedTexts(Tail(es), empties)

\* C16: for a frontmatter block with a tags: [...] line the extracted tag list is
\* exactly the sequence of the double-quoted tokens between the brackets, verbatim, in
\* the order written and with duplicates kept; an entry that is not double-quoted
\* contributes no tag. (An empty token "" may be counted or not: either way.)
C16_TagsAsWritten ==
    \A p \in {vParsed, aParsed} :
        (p.returned /\ HasBlock(doc) /\ doc.hasTagsLine) =>
            /\ p.fm.hasTags
            /\ p.fm.tags \in {DoubleQuotedTexts(doc.entries, TRUE),
                               DoubleQuotedTexts(doc.entries, FALSE)}

\* the identifier section 4.1 gives the post: the value of its slug line, else p1
ExpectedId(d) == IF HasBlock(d) /\ d.slug.present THEN d.slug.value ELSE PostFile.stem

\* C17: in validation and in analysis the identifier recorded for a post is the value
\* of the slug line of its frontmatter when there is one and otherwise the file name
\* without '.mdx'; no other text of the post, such as a heading after the frontmatter,
\* is ever used.
C17_IdentifierSource ==
    \A p \in {vParsed, aParsed} : p.returned => p.postSlug = ExpectedId(doc)

\* C24: for every text the validator's and the analyzer's parseFrontmatter return the
\* same tag list (or both none) and the same slug, so both tools count the same tags
\* for the post and name it by the same identifier.
C24_SameExtraction ==
    (vParsed.returned /\ aParsed.returned) =>
        /\ vParsed.fm.hasTags = aParsed.fm.hasTags
        /\ vParsed.fm.tags = aParsed.fm.tags
        /\ vParsed.fm.slug = aParsed.fm.slug
        /\ vParsed.postSlug = aParsed.postSlug

----------------------------------------------------------------------------
(* Claims about the analyzer run (checked under SpecAnalyze) *)

\* the tags of entry i of the directory, as written
TagsOfPost(i) == IF dir[i].fm.hasTags THEN dir[i].fm.tags ELSE <<>>

\* the set of the tags of the posts of the directory
CorpusTags == UNION {{TagsOfPost(i)[k] : k \in DOMAIN TagsOfPost(i)} : i \in PostIndices}

\* how often t is written over all posts
OccurrencesOf(t) == Cardinality({p \in Occurrences : dir[p[1]].fm.tags[p[2]] = t})

RECURSIVE PostsWith(_, _)
\* the identifiers of the posts from entry i on in which t occurs, in listing order
PostsWith(t, i) ==
    IF i > Len(dir) THEN <<>>
    ELSE (IF i \in PostIndices /\ InSeq(t, TagsOfPost(i)) THEN <<PostSlug(dir[i])>> ELSE <<>>)
         \o PostsWith(t, i + 1)

UniqueCount == Cardinality(CorpusTags)

SingleCount == Cardinality({t \in CorpusTags : OccurrencesOf(t) = 1})

MultiCount == Cardinality({t \in CorpusTags : OccurrencesOf(t) > 1})

\* every read the run makes succeeds
Readable ==
    \/ unreadable = NothingUnreadable
    \/ unreadable >= 1 /\ dir[unreadable].ext # ".mdx"

\* C13: an exception during a file read (an unreadable posts directory or post file)
\* reaches the top-level invocation, is logged as 'Fatal error' with its cause, and
\* ends the run with a non-zero exit status (here: of the analysis script).
C13_FatalError ==
    (aPc = "exited" /\ ~Readable) =>
        /\ aExit # 0
        /\ \E i \in DOMAIN aLog : aLog[i].prefix = "Fatal error:"

\* C14: the analysis never fails the build: over every corpus whose files can be read
\* (no post, posts without tags) it raises nothing and logs no error, is at a step of
\* the run until it has printed its report and ended, ends with exit status 0, and no
\* step writes to a source document.
C14_NeverFails ==
    /\ [](Readable =>
            /\ aPc \in {"main", "scan", "returned", "exited"}
            /\ aPc = "scan" => aIdx \in 1..(Len(aFiles) + 1)
            /\ aLog = <<>>
            /\ aPc = "exited" => (report.printed /\ aExit = 0))
    /\ [][dir' = dir]_vars

\* a run over a directory with no post has ended: both averages were 0 / 0
C14_Witness ==
    /\ aPc = "exited"
    /\ Readable
    /\ dir # <<>>
    /\ report.totalPosts = 0
    /\ report.averageTags.kind = "NaN"
    /\ report.reuseRate.kind = "NaN"
    /\ aExit = 0

\* a run over posts without any tag has ended
C14_WitnessNoTags ==
    /\ aPc = "exited"
    /\ Readable
    /\ report.totalPosts = MaxDocs
    /\ report.uniqueTags = 0
    /\ aExit = 0

\* a run that printed the low-reuse advisory has ended
C14_WitnessAdvisory ==
    /\ aPc = "exited"
    /\ report.printed
    /\ report.advisory
    /\ aExit = 0

\* C18: the entry of each unique tag has count = the number of its occurrences over
\* the posts (at least 1) and posts = the identifiers of the posts it occurs in, in
\* scan order; the single-use and multi-use counts and the reuse rate follow from the
\* counts (x in p1 and p2, y in p3: counts 2 and 1, one of each, rate 1/2).
C18_UsageEntries ==
    report.printed =>
        /\ Len(report.tagUsage) = UniqueCount
        /\ \A t \in CorpusTags : \E i \in DOMAIN report.tagUsage :
              /\ report.tagUsage[i].tag = t
              /\ report.tagUsage[i].count = OccurrencesOf(t)
              /\ report.tagUsage[i].count >= 1
              /\ report.tagUsage[i].posts = PostsWith(t, 1)
        /\ report.singleUseTags = SingleCount
        /\ report.multiUseTags = MultiCount
        /\ report.reuseRate = Divide(MultiCount, UniqueCount)

\* the report holds a suggestion to replace the tag from
Emitted(from) ==
    \E i \in DOMAIN report.consolidations : report.consolidations[i].from = from

\* C19: a suggestion is emitted for a rule of the table exactly when its narrow tag and
\* its broad tag (for computer-literacy: skills or education) are all in the tag set
\* of the corpus, by exact string membership, and both the 'from' and the 'to' tag of
\* every emitted suggestion occur in the corpus.
C19_Consolidations ==
    report.printed =>
        /\ Emitted(Tag.workflowEngineering) <=>
              {Tag.workflowEngineering, Tag.workflow} \subseteq CorpusTags
        /\ Emitted(Tag.operationalAi) <=> {Tag.operationalAi, Tag.ai} \subseteq CorpusTags
        /\ Emitted(Tag.digitalSkills) <=> {Tag.digitalSkills, Tag.skills} \subseteq CorpusTags
        /\ Emitted(Tag.computerLiteracy) <=>
              /\ Tag.computerLiteracy \in CorpusTags
              /\ Tag.skills \in CorpusTags \/ Tag.education \in CorpusTags
        /\ \A i \in DOMAIN report.consolidations :
              /\ report.consolidations[i].from \in CorpusTags
              /\ report.consolidations[i].to \in CorpusTags

\* C20: the low-reuse advisory is printed exactly when multi-use tags / unique tags
\* < 0.30, that is 10 * multi-use < 3 * unique; a corpus without any tag gets no
\* advisory and the run does not fail.
C20_LowReuseAdvisory ==
    report.printed =>
        /\ report.advisory <=> 10 * MultiCount < 3 * UniqueCount
        /\ CorpusTags = {} =>
              /\ ~report.advisory
              /\ aPc = "exited" => aExit = 0

\* three of ten tags are used more than once: the rate is 0.3 and no advisory is printed
C20_Witness ==
    /\ report.printed
    /\ UniqueCount = 10
    /\ MultiCount = 3
    /\ ~report.advisory

\* two of ten tags are used more than once: the advisory is printed
C20_WitnessLow ==
    /\ report.printed
    /\ UniqueCount = 10
    /\ MultiCount = 2
    /\ report.advisory

\* a run over posts without any tag has ended and printed no advisory
C20_WitnessNoTags ==
    /\ aPc = "exited"
    /\ report.printed
    /\ PostIndices # {}
    /\ CorpusTags = {}
    /\ ~report.advisory

RECURSIVE TagsFrom(_)
\* the tags of the posts from entry i of the listing on, in the order they are scanned
TagsFrom(i) ==
    IF i > Len(dir) THEN <<>>
    ELSE (IF i \in PostIndices THEN TagsOfPost(i) ELSE <<>>) \o TagsFrom(i + 1)

\* the position at which tag t of the corpus is first seen
FirstSeen(t) == CHOOSE k \in DOMAIN TagsFrom(1) :
                    /\ TagsFrom(1)[k] = t
                    /\ \A j \in 1..(k - 1) : TagsFrom(1)[j] # t

\* C22: every unique tag of the corpus has exactly one entry, and is counted in exactly
\* one of the classes used-once (count = 1) and used-multiple-times (count > 1), so
\* single-use + multi-use = unique tags; the entries are listed in descending order of
\* count, entries of equal count in the order their tags were first seen.
C22_ClassesAndOrder ==
    report.printed =>
        LET u == report.tagUsage
        IN /\ {u[i].tag : i \in DOMAIN u} = CorpusTags
           /\ \A i, j \in DOMAIN u : u[i].tag = u[j].tag => i = j
           /\ \A i \in DOMAIN u : u[i].count = OccurrencesOf(u[i].tag)
           /\ report.uniqueTags = UniqueCount
           /\ report.singleUseTags = Cardinality({i \in DOMAIN u : u[i].count = 1})
           /\ report.multiUseTags = Cardinality({i \in DOMAIN u : u[i].count > 1})
           /\ report.singleUseTags + report.multiUseTags = report.uniqueTags
           /\ \A i, j \in DOMAIN u : i < j =>
                 \/ u[i].count > u[j].count
                 \/ /\ u[i].count = u[j].count
                    /\ FirstSeen(u[i].tag) < FirstSeen(u[j].tag)

\* a report in which a tag seen later is listed first and two pairs of tags tie
C22_Witness ==
    /\ report.printed
    /\ Len(report.tagUsage) = 4
    /\ report.tagUsage[1].count = 2
    /\ report.tagUsage[2].count = 2
    /\ report.tagUsage[3].count = 1
    /\ report.tagUsage[4].count = 1
    /\ FirstSeen(report.tagUsage[3].tag) = 1

----------------------------------------------------------------------------
(* Claims about the order of the listing (checked under SpecOrder) *)

\* how many entries of the sequence s equal x
CountIn(s, x) == Cardinality({k \in DOMAIN s : s[k] = x})

\* a and b hold the same elements, each as often
SameBag(a, b) ==
    /\ Len(a) = Len(b)
    /\ \A k \in DOMAIN a : CountIn(a, a[k]) = CountIn(b, a[k])

\* the (tag, count) pairs of a usage table
CountsOf(u) == {<<u[i].tag, u[i].count>> : i \in DOMAIN u}

\* C23: over the same documents listed in any other order, validation returns the same
\* valid flag, the same stats and the same multiset of issues, and analysis the same
\* per-tag counts, single-use and multi-use counts and consolidation suggestions; only
\* the order of the issues and of tags of equal count may differ.
C23_OrderIndependent ==
    earlier.taken =>
        /\ result.returned =>
              /\ result.valid = earlier.result.valid
              /\ result.stats = earlier.result.stats
              /\ SameBag(result.issues, earlier.result.issues)
        /\ report.printed =>
              /\ CountsOf(report.tagUsage) = CountsOf(earlier.report.tagUsage)
              /\ [i \in DOMAIN report.tagUsage |-> report.tagUsage[i].count]
                    = [i \in DOMAIN earlier.report.tagUsage |->
                          earlier.report.tagUsage[i].count]
              /\ report.totalTags = earlier.report.totalTags
              /\ report.uniqueTags = earlier.report.uniqueTags
              /\ report.singleUseTags = earlier.report.singleUseTags
              /\ report.multiUseTags = earlier.report.multiUseTags
              /\ report.consolidations = earlier.report.consolidations

\* both tools have run again over three posts listed in another order: the issues and
\* two tags of equal count come in another order, and a consolidation is suggested
C23_Witness ==
    /\ earlier.taken
    /\ pc = "exited"
    /\ aPc = "exited"
    /\ Len(aFiles) = 3
    /\ dir # earlier.dir
    /\ Len(result.issues) >= 3
    /\ result.issues # earlier.result.issues
    /\ report.tagUsage # earlier.report.tagUsage
    /\ report.consolidations # <<>>

====
